---- MODULE Spec2Model ----
(***************************************************************************)
(* Model of the geocoding gateway of src/server.ts: one upstream call      *)
(* (handleGeocodingRequest) behind two transports, POST /geocode and the   *)
(* socket.io event geocoding-request, plus GET /health.                    *)
(*                                                                         *)
(* Strings that the code builds or inspects (text, k, the upstream URL)    *)
(* are sequences of one-character strings, so that concatenation,          *)
(* encodeURIComponent and the reading of a query string are computed.      *)
(* Messages, which the code only copies, are TLA+ strings.                 *)
(*                                                                         *)
(* Node runs every handler to its next await and drains the microtask      *)
(* queue before the next I/O callback, so a step of the model is either    *)
(* the receipt of a request (up to `await axios.get`) or the settlement of *)
(* one upstream call (the rest of both async functions).                   *)
(***************************************************************************)
EXTENDS Integers, Sequences, FiniteSets

\* ------------------------------------------------------------------ bounds
MaxRequests == 2      \* requests received in a behaviour of Spec
MaxUrlRequests == 1   \* requests received in a behaviour of SpecUrl
MaxFairRequests == 2  \* requests received in a behaviour of SpecFair

\* ---------------------------------------------------------- JavaScript values
\* A JavaScript value as the code sees it: its type and its characters
\* (a number by its decimal digits).
Undefined == [type |-> "undefined", repr |-> <<>>]
Str(s) == [type |-> "string", repr |-> s]
Num(s) == [type |-> "number", repr |-> s]

\* a test for `undefined` only, where the code tests truthiness
Truthy_DefinedOnly(v) == v.type # "undefined"

\* ToBoolean, as used by `!text` and `k ? ... : ''`.
Truthy(v) ==
  \/ v.type = "string" /\ v.repr # <<>>
  \/ v.type = "number" /\ v.repr # <<"0">>

\* ToString, as applied by a template literal and by encodeURIComponent.
JSToString(v) ==
  IF v.type = "undefined" THEN <<"u","n","d","e","f","i","n","e","d">> ELSE v.repr

\* A lone UTF-16 surrogate, on which encodeURIComponent throws URIError.
LoneSurrogate == "\\uD800"

\* Characters encodeURIComponent leaves alone (those the model uses).
Unreserved ==
  {"a","b","c","d","e","f","g","h","i","l","n","o","s","t","u","x",
   "0","1","5","7","8","9","-","_",".","!","~","*","'","(",")"}

\* The percent-escape of one character outside Unreserved.
Escape(c) ==
  CASE c = " " -> <<"%","2","0">>
    [] c = "&" -> <<"%","2","6">>
    [] c = "=" -> <<"%","3","D">>
    [] c = "?" -> <<"%","3","F">>
    [] c = "#" -> <<"%","2","3">>
    [] c = "%" -> <<"%","2","5">>
    [] c = "/" -> <<"%","2","F">>
    [] c = ":" -> <<"%","3","A">>
    [] OTHER   -> <<"%","3","F">>

RECURSIVE EncodeChars(_)
EncodeChars(s) ==
  IF s = <<>> THEN <<>>
  ELSE (IF Head(s) \in Unreserved THEN <<Head(s)>> ELSE Escape(Head(s)))
       \o EncodeChars(Tail(s))

\* encodeURIComponent(v): the encoded characters, or a thrown URIError.
encodeURIComponent(v) ==
  LET s == JSToString(v) IN
  IF \E i \in 1..Len(s) : s[i] = LoneSurrogate
    THEN [threw |-> TRUE, value |-> <<>>]
    ELSE [threw |-> FALSE, value |-> EncodeChars(s)]

\* --------------------------------------------------------------- configuration
PORT == 3000
\* 'http://localhost:5008'
GEOCODING_SERVICE_URL ==
  <<"h","t","t","p",":","/","/","l","o","c","a","l","h","o","s","t",":","5","0","0","8">>

\* ------------------------------------------------------------------- messages
FailedMsg == "Failed to communicate with geocoding service"
TextRequiredMsg == "Text query is required"
UnknownErrorMsg == "Unknown error occurred"
InternalErrorMsg == "Internal server error"
\* messages of the TypeErrors the engine raises on an absent payload or body
DataTypeErrorMsg == "Cannot read properties of undefined (reading 'text')"
BodyTypeErrorMsg == "Cannot destructure property 'text' of 'req.body' as it is undefined."

\* an Error object, as thrown
ErrorObj(m) == [isError |-> TRUE, message |-> m]

\* --------------------------------------------------------------- envelopes
\* an envelope that drops the upstream data
SuccessEnvelope_NoData(data) == [results |-> <<>>, status |-> "success"]

SuccessEnvelope(data) == [results |-> data, status |-> "success"]

\* an error envelope that fills the `results` the interface declares
ErrorEnvelope_WithResults(m) == [results |-> <<>>, status |-> "error", message |-> m]

ErrorEnvelope(m) == [status |-> "error", message |-> m]

\* the value of a variable that holds nothing yet
NoValue == [isError |-> FALSE, message |-> ""]

\* --------------------------------------------------------------------- state
Conns == {"A", "B"}          \* the sockets that may connect

VARIABLES
  sockets,    \* socket -> "new" | "connected" | "disconnected"
  reqs,       \* the requests received, in order of receipt
  calls,      \* the upstream calls issued by axios.get: [req, url]
  emitted,    \* socket -> the geocoding-response events emitted on it
  delivered,  \* socket -> the events that reached its client
  httpOut,    \* the responses sent for POST /geocode: [req, code, body]
  healthOut,  \* the responses sent for GET /health
  settleLog   \* the requests whose upstream call settled, in that order

vars == <<sockets, reqs, calls, emitted, delivered, httpOut, healthOut, settleLog>>

\* ----------------------------------------------------------- the upstream
Datas == { <<>>, <<"Paris, France">> }     \* response.data of a 2xx reply
Causes == {"network", "status"}          \* why axios.get rejected
UrlCauses == {"network", "timeout", "status", "malformed"}
NoOutcome == [state |-> "none", data |-> <<>>, cause |-> "none"]
PendingOutcome == [state |-> "pending", data |-> <<>>, cause |-> "none"]
Resolved(d) == [state |-> "resolved", data |-> d, cause |-> "none"]
Rejected(c) == [state |-> "rejected", data |-> <<>>, cause |-> c]
Outcomes == {Resolved(d) : d \in Datas} \cup {Rejected(c) : c \in Causes}
UrlOutcomes == {Resolved(d) : d \in Datas} \cup {Rejected(c) : c \in UrlCauses}

\* ----------------------------------------------------- handleGeocodingRequest
GeocodingPath == <<"/","g","e","o","c","o","d","i","n","g","?","t","e","x","t","=">>
KParam == <<"&","k","=">>

\* the URL with `k !== undefined` in place of `k`
buildUrl_KDefined(text, k) ==
  LET e == encodeURIComponent(text) IN
  IF e.threw THEN [threw |-> TRUE, value |-> <<>>]
  ELSE [threw |-> FALSE,
        value |-> GEOCODING_SERVICE_URL \o GeocodingPath \o e.value
                  \o (IF k.type # "undefined" THEN KParam \o JSToString(k) ELSE <<>>)]

\* line 64: the URL, or the URIError of encodeURIComponent
buildUrl(text, k) ==
  LET e == encodeURIComponent(text) IN
  IF e.threw THEN [threw |-> TRUE, value |-> <<>>]
  ELSE [threw |-> FALSE,
        value |-> GEOCODING_SERVICE_URL \o GeocodingPath \o e.value
                  \o (IF Truthy(k) THEN KParam \o JSToString(k) ELSE <<>>)]

\* lines 71-74: whatever was caught, a new Error is thrown
hgrCatch == [kind |-> "throw", value |-> ErrorObj(FailedMsg)]

\* the failure folded into a returned envelope instead of thrown
hgrResume_Folds(outcome) ==
  IF outcome.state = "resolved"
    THEN [kind |-> "return", value |-> SuccessEnvelope(outcome.data)]
    ELSE [kind |-> "return", value |-> ErrorEnvelope(FailedMsg)]

\* lines 65-74: how the function completes once axios.get has settled
hgrResume(outcome) ==
  IF outcome.state = "resolved"
    THEN [kind |-> "return", value |-> SuccessEnvelope(outcome.data)]
    ELSE hgrCatch

NoCompletion == [kind |-> "none", value |-> NoValue]

\* the default message whatever was thrown
errorMessage_Default(error, dflt) == dflt

\* `error instanceof Error ? error.message : dflt`
errorMessage(error, dflt) == IF error.isError THEN error.message ELSE dflt

\* the catch branch always sending the default message
socketReply_DefaultMessage(completion) ==
  IF completion.kind = "return" THEN completion.value
  ELSE ErrorEnvelope(UnknownErrorMsg)

\* lines 45-53: the payload of the geocoding-response event
socketReply(completion) ==
  IF completion.kind = "return" THEN completion.value
  ELSE ErrorEnvelope(errorMessage(completion.value, UnknownErrorMsg))

\* a limit on the number of responses, counted across requests
httpReply_Limited(completion) ==
  IF Len(httpOut) >= 1
    THEN [code |-> 429, body |-> ErrorEnvelope(InternalErrorMsg)]
    ELSE IF completion.kind = "return" THEN [code |-> 200, body |-> completion.value]
    ELSE [code |-> 500,
          body |-> ErrorEnvelope(errorMessage(completion.value, InternalErrorMsg))]

\* the catch branch answering 200
httpReply_Always200(completion) ==
  IF completion.kind = "return" THEN [code |-> 200, body |-> completion.value]
  ELSE [code |-> 200,
        body |-> ErrorEnvelope(errorMessage(completion.value, InternalErrorMsg))]

\* lines 93-99: the status and body of the POST /geocode response
httpReply(completion) ==
  IF completion.kind = "return" THEN [code |-> 200, body |-> completion.value]
  ELSE [code |-> 500,
        body |-> ErrorEnvelope(errorMessage(completion.value, InternalErrorMsg))]

\* the event put ahead of the events already emitted on the socket
socketEmit_Prepend(em, c, r, payload) ==
  [em EXCEPT ![c] = <<[req |-> r, payload |-> payload]>> \o @]

\* io.emit in place of socket.emit: the event goes to every socket
socketEmit_Broadcast(em, c, r, payload) ==
  [d \in DOMAIN em |-> Append(em[d], [req |-> r, payload |-> payload])]

\* the reply withheld while a request received earlier is still awaiting
\* its upstream call
socketEmit_Serial(em, c, r, payload) ==
  IF \E q \in 1..(r - 1) : reqs[q].pc = "await"
    THEN em
    ELSE [em EXCEPT ![c] = Append(@, [req |-> r, payload |-> payload])]

\* socket.emit('geocoding-response', payload) on socket c, for request r
socketEmit(em, c, r, payload) ==
  [em EXCEPT ![c] = Append(@, [req |-> r, payload |-> payload])]

\* a packet for a socket that is gone handed to the sockets still connected
socketDeliver_Fallback(dl, c, r, payload) ==
  IF sockets[c] = "connected"
    THEN [dl EXCEPT ![c] = Append(@, [req |-> r, payload |-> payload])]
    ELSE [d \in DOMAIN dl |->
            IF sockets[d] = "connected"
              THEN Append(dl[d], [req |-> r, payload |-> payload]) ELSE dl[d]]

\* what socket.emit does with the packet: it is written to the client of
\* socket c while c is connected, and discarded without an error otherwise
socketDeliver(dl, c, r, payload) ==
  IF sockets[c] = "connected"
    THEN [dl EXCEPT ![c] = Append(@, [req |-> r, payload |-> payload])]
    ELSE dl

\* a health reply that reports the upstream failures seen so far
healthReply_Degraded ==
  IF \E q \in 1..Len(reqs) : reqs[q].outcome.state = "rejected"
    THEN [code |-> 503, body |-> [status |-> "unhealthy"]]
    ELSE [code |-> 200, body |-> [status |-> "healthy"]]

\* line 79
healthReply == [code |-> 200, body |-> [status |-> "healthy"]]

\* a catch branch that sends nothing
resJson_SilentCatch(out, r, reply) ==
  IF reply.code = 500 THEN out
  ELSE Append(out, [req |-> r, code |-> reply.code, body |-> reply.body])

\* res.status(code).json(body) for request r
resJson(out, r, reply) ==
  Append(out, [req |-> r, code |-> reply.code, body |-> reply.body])

\* ------------------------------------------------------------------ inputs
Absent == [present |-> FALSE, text |-> Undefined, k |-> Undefined]
Payload(t, k) == [present |-> TRUE, text |-> t, k |-> k]

\* in Spec: no payload, an empty text, a text without k and one with k
Payloads == {Absent, Payload(Str(<<>>), Undefined),
             Payload(Str(<<"a"," ","b">>), Str(<<"5">>))}

UrlTexts == {Undefined, Str(<<>>), Num(<<"0">>), Str(<<"a"," ","b">>),
             Str(<<"a","&","k","=","1">>), Str(<<"a", LoneSurrogate>>)}
UrlKs == {Undefined, Str(<<>>), Num(<<"0">>), Num(<<"5">>), Str(<<"5">>),
          Str(<<"7","&","x">>)}
UrlConns == {"A"}            \* the socket that connects in SpecUrl
FairPayloads == {Absent, Payload(Str(<<>>), Undefined),
                 Payload(Str(<<"a"," ","b">>), Str(<<"5">>))}
FairOutcomes == {Resolved(<<"Paris, France">>), Rejected("network")}
UrlPayloads == {Absent} \cup {Payload(t, k) : t \in UrlTexts, k \in UrlKs}

\* ------------------------------------------------------------------- Init
Init ==
  /\ sockets = [c \in Conns |-> "new"]
  /\ reqs = <<>>
  /\ calls = <<>>
  /\ emitted = [c \in Conns |-> <<>>]
  /\ delivered = [c \in Conns |-> <<>>]
  /\ httpOut = <<>>
  /\ healthOut = <<>>
  /\ settleLog = <<>>

Request(transport, conn, data, pc, outcome, completion) ==
  [transport |-> transport, conn |-> conn, present |-> data.present,
   text |-> data.text, k |-> data.k, pc |-> pc, outcome |-> outcome,
   completion |-> completion]

\* ----------------------------------------------------------------- actions
\* io.on('connection'), lines 39-41
Connect(c) ==
  /\ sockets[c] = "new"
  /\ sockets' = [sockets EXCEPT ![c] = "connected"]
  /\ UNCHANGED <<reqs, calls, emitted, delivered, httpOut, healthOut, settleLog>>

\* socket.on('disconnect'), lines 56-58: the handler only logs
Disconnect(c) ==
  /\ sockets[c] = "connected"
  /\ sockets' = [sockets EXCEPT ![c] = "disconnected"]
  /\ UNCHANGED <<reqs, calls, emitted, delivered, httpOut, healthOut, settleLog>>

\* socket.on('geocoding-request'), lines 43-54, up to `await axios.get`
SocketRequest(c, data) ==
  LET r == Len(reqs) + 1
      u == buildUrl(data.text, data.k)
  IN
  /\ sockets[c] = "connected"
  /\ IF ~data.present
       THEN \* data.text throws TypeError, caught at line 47
            LET completion == [kind |-> "throw", value |-> ErrorObj(DataTypeErrorMsg)] IN
            /\ reqs' = Append(reqs, Request("socket", c, data, "done", NoOutcome, NoCompletion))
            /\ emitted' = socketEmit(emitted, c, r, socketReply(completion))
            /\ delivered' = socketDeliver(delivered, c, r, socketReply(completion))
            /\ UNCHANGED calls
       ELSE IF u.threw
       THEN \* URIError inside handleGeocodingRequest's try
            /\ reqs' = Append(reqs, Request("socket", c, data, "done", NoOutcome, hgrCatch))
            /\ emitted' = socketEmit(emitted, c, r, socketReply(hgrCatch))
            /\ delivered' = socketDeliver(delivered, c, r, socketReply(hgrCatch))
            /\ UNCHANGED calls
       ELSE /\ reqs' = Append(reqs, Request("socket", c, data, "await", PendingOutcome, NoCompletion))
            /\ calls' = Append(calls, [req |-> r, url |-> u.value])
            /\ UNCHANGED <<emitted, delivered>>
  /\ UNCHANGED <<sockets, httpOut, healthOut, settleLog>>

\* the 400 sent without `return`, so that the handler goes on
HttpPost_NoReturn(body) ==
  LET r == Len(reqs) + 1
      u == buildUrl(body.text, body.k)
  IN
  /\ IF ~body.present
       THEN LET completion == [kind |-> "throw", value |-> ErrorObj(BodyTypeErrorMsg)] IN
            /\ reqs' = Append(reqs, Request("http", "none", body, "done", NoOutcome, NoCompletion))
            /\ httpOut' = resJson(httpOut, r, httpReply(completion))
            /\ UNCHANGED calls
       ELSE IF u.threw
       THEN /\ reqs' = Append(reqs, Request("http", "none", body, "done", NoOutcome, hgrCatch))
            /\ httpOut' = resJson(httpOut, r, httpReply(hgrCatch))
            /\ UNCHANGED calls
       ELSE /\ reqs' = Append(reqs, Request("http", "none", body, "await", PendingOutcome, NoCompletion))
            /\ calls' = Append(calls, [req |-> r, url |-> u.value])
            /\ httpOut' = IF ~Truthy(body.text)
                            THEN resJson(httpOut, r, [code |-> 400,
                                                      body |-> ErrorEnvelope(TextRequiredMsg)])
                            ELSE httpOut
  /\ UNCHANGED <<sockets, emitted, delivered, healthOut, settleLog>>

\* app.post('/geocode'), lines 82-101, up to `await axios.get`
HttpPost(body) ==
  LET r == Len(reqs) + 1
      u == buildUrl(body.text, body.k)
  IN
  /\ IF ~body.present
       THEN \* destructuring req.body throws TypeError, caught at line 95
            LET completion == [kind |-> "throw", value |-> ErrorObj(BodyTypeErrorMsg)] IN
            /\ reqs' = Append(reqs, Request("http", "none", body, "done", NoOutcome, NoCompletion))
            /\ httpOut' = resJson(httpOut, r, httpReply(completion))
            /\ UNCHANGED calls
       ELSE IF ~Truthy(body.text)
       THEN \* lines 86-91
            /\ reqs' = Append(reqs, Request("http", "none", body, "done", NoOutcome, NoCompletion))
            /\ httpOut' = resJson(httpOut, r,
                                  [code |-> 400, body |-> ErrorEnvelope(TextRequiredMsg)])
            /\ UNCHANGED calls
       ELSE IF u.threw
       THEN /\ reqs' = Append(reqs, Request("http", "none", body, "done", NoOutcome, hgrCatch))
            /\ httpOut' = resJson(httpOut, r, httpReply(hgrCatch))
            /\ UNCHANGED calls
       ELSE /\ reqs' = Append(reqs, Request("http", "none", body, "await", PendingOutcome, NoCompletion))
            /\ calls' = Append(calls, [req |-> r, url |-> u.value])
            /\ UNCHANGED httpOut
  /\ UNCHANGED <<sockets, emitted, delivered, healthOut, settleLog>>

\* a second attempt after the first upstream failure
AxiosSettle_Retry(r, outcome) ==
  LET completion == hgrResume(outcome)
      attempts == Cardinality({i \in 1..Len(calls) : calls[i].req = r})
  IN
  /\ r \in 1..Len(reqs)
  /\ reqs[r].pc = "await"
  /\ IF outcome.state = "rejected" /\ attempts < 2
       THEN /\ calls' = Append(calls, [req |-> r, url |-> calls[CHOOSE i \in 1..Len(calls) : calls[i].req = r].url])
            /\ UNCHANGED <<reqs, settleLog, emitted, delivered, httpOut>>
       ELSE /\ reqs' = [reqs EXCEPT ![r].pc = "done", ![r].outcome = outcome,
                                    ![r].completion = completion]
            /\ settleLog' = Append(settleLog, r)
            /\ IF reqs[r].transport = "socket"
                 THEN /\ emitted' = socketEmit(emitted, reqs[r].conn, r, socketReply(completion))
                      /\ delivered' = socketDeliver(delivered, reqs[r].conn, r, socketReply(completion))
                      /\ UNCHANGED httpOut
                 ELSE /\ httpOut' = resJson(httpOut, r, httpReply(completion))
                      /\ UNCHANGED <<emitted, delivered>>
            /\ UNCHANGED calls
  /\ UNCHANGED <<sockets, healthOut>>

\* axios.get settles for request r: the rest of handleGeocodingRequest
\* (lines 65-74) and of the adapter that awaits it (lines 46-53, 94-99)
AxiosSettle(r, outcome) ==
  LET completion == hgrResume(outcome) IN
  /\ r \in 1..Len(reqs)
  /\ reqs[r].pc = "await"
  /\ reqs' = [reqs EXCEPT ![r].pc = "done", ![r].outcome = outcome,
                          ![r].completion = completion]
  /\ settleLog' = Append(settleLog, r)
  /\ IF reqs[r].transport = "socket"
       THEN /\ emitted' = socketEmit(emitted, reqs[r].conn, r, socketReply(completion))
            /\ delivered' = socketDeliver(delivered, reqs[r].conn, r, socketReply(completion))
            /\ UNCHANGED httpOut
       ELSE /\ httpOut' = resJson(httpOut, r, httpReply(completion))
            /\ UNCHANGED <<emitted, delivered>>
  /\ UNCHANGED <<sockets, calls, healthOut>>

\* app.get('/health'), lines 78-80
Health ==
  /\ healthOut' = Append(healthOut, healthReply)
  /\ UNCHANGED <<sockets, reqs, calls, emitted, delivered, httpOut, settleLog>>

\* the requests received so far, on any route
Received == Len(reqs) + Len(healthOut)

Next ==
  \/ \E c \in Conns : Connect(c)
  \/ \E c \in Conns : Disconnect(c)
  \/ \E c \in Conns, data \in Payloads : Received < MaxRequests /\ SocketRequest(c, data)
  \/ \E body \in Payloads : Received < MaxRequests /\ HttpPost(body)
  \/ \E r \in 1..Len(reqs), outcome \in Outcomes : AxiosSettle(r, outcome)
  \/ Received < MaxRequests /\ Health

Spec == Init /\ [][Next]_vars

\* the same program, one request at a time, over the wider inputs that
\* exercise the construction of the upstream URL
NextUrl ==
  \/ \E c \in UrlConns : Connect(c)
  \/ \E c \in UrlConns : Disconnect(c)
  \/ \E c \in UrlConns, data \in UrlPayloads : Received < MaxUrlRequests /\ SocketRequest(c, data)
  \/ \E body \in UrlPayloads : Received < MaxUrlRequests /\ HttpPost(body)
  \/ \E r \in 1..Len(reqs), outcome \in UrlOutcomes : AxiosSettle(r, outcome)
  \/ Received < MaxUrlRequests /\ Health

SpecUrl == Init /\ [][NextUrl]_vars

\* the same program under a fair event loop and an upstream whose every
\* call settles in the end: a pending axios.get is not pending for ever
NextFair ==
  \/ \E c \in Conns : Connect(c)
  \/ \E c \in Conns : Disconnect(c)
  \/ \E c \in Conns, data \in FairPayloads : Received < MaxFairRequests /\ SocketRequest(c, data)
  \/ \E body \in FairPayloads : Received < MaxFairRequests /\ HttpPost(body)
  \/ \E r \in 1..Len(reqs), outcome \in FairOutcomes : AxiosSettle(r, outcome)
  \/ Received < MaxFairRequests /\ Health

SpecFair ==
  /\ Init /\ [][NextFair]_vars
  /\ \A r \in 1..MaxFairRequests : WF_vars(\E outcome \in FairOutcomes : AxiosSettle(r, outcome))

\* ------------------------------------------------- reading the model's state
Ids == 1..Len(reqs)
IsHttp(r) == reqs[r].transport = "http"
IsSocket(r) == reqs[r].transport = "socket"
Succeeded(r) == reqs[r].outcome.state = "resolved"
Failed(r) == reqs[r].outcome.state = "rejected"
Settled(r) == Succeeded(r) \/ Failed(r)
\* text is a non-empty string
NonEmptyText(r) == reqs[r].present /\ reqs[r].text.type = "string" /\ reqs[r].text.repr # <<>>
\* text is absent or the empty string
NoText(r) == reqs[r].present /\ reqs[r].text \in {Undefined, Str(<<>>)}

CallsFor(r) == {i \in 1..Len(calls) : calls[i].req = r}
HttpFor(r) == {i \in 1..Len(httpOut) : httpOut[i].req = r}
EmitsFor(c, r) == {i \in 1..Len(emitted[c]) : emitted[c][i].req = r}

\* the one HTTP response of r is [code, body]
HttpAnswered(r, code, body) ==
  /\ Cardinality(HttpFor(r)) = 1
  /\ \A i \in HttpFor(r) : httpOut[i].code = code /\ httpOut[i].body = body

\* the one event emitted for r, on its own socket, carries payload
SocketAnswered(r, payload) ==
  /\ Cardinality(EmitsFor(reqs[r].conn, r)) = 1
  /\ \A i \in EmitsFor(reqs[r].conn, r) : emitted[reqs[r].conn][i].payload = payload

\* the envelopes the claims speak of, written out
OkPayload(data) == [status |-> "success", results |-> data]
ErrPayload(m) == [status |-> "error", message |-> m]
FailedEnvelope == ErrPayload("Failed to communicate with geocoding service")

\* ---------------------------------------------------------------- claim C1
\* C1 as stated: handleGeocodingRequest never completes by throwing, and
\* on an upstream failure it returns the error envelope.
C1_NeverThrows ==
  \A r \in Ids :
    /\ reqs[r].completion.kind # "throw"
    /\ Failed(r) => reqs[r].completion = [kind |-> "return", value |-> FailedEnvelope]

\* C1 amended: handleGeocodingRequest returns {status:"success", results}
\* exactly when the upstream call succeeds; when the upstream call fails,
\* whatever the cause, it completes by throwing
\* Error("Failed to communicate with geocoding service") and never returns
\* an error envelope.
C1_ThrowsOnUpstreamFailure ==
  \A r \in Ids :
    /\ Succeeded(r) =>
         reqs[r].completion = [kind |-> "return",
                               value |-> OkPayload(reqs[r].outcome.data)]
    /\ Failed(r) =>
         reqs[r].completion = [kind |-> "throw",
                               value |-> [isError |-> TRUE, message |-> FailedEnvelope.message]]
    /\ reqs[r].completion.kind = "return" =>
         Succeeded(r) /\ reqs[r].completion.value.status = "success"

C1_Witness ==
  \E r \in Ids : Failed(r) /\ reqs[r].outcome.cause = "malformed"
                 /\ reqs[r].completion.kind = "throw"

\* ---------------------------------------------------------------- claim C2
\* C2 as stated: POST /geocode with a non-empty text whose upstream call
\* fails is answered 200 with the error envelope, and 500 is never the
\* answer to an upstream failure.
C2_UpstreamFailureIs200 ==
  \A r \in Ids :
    (IsHttp(r) /\ NonEmptyText(r) /\ Failed(r)) =>
      /\ HttpAnswered(r, 200, FailedEnvelope)
      /\ \A i \in HttpFor(r) : httpOut[i].code # 500

\* C2 amended: POST /geocode with a non-empty text whose upstream call
\* fails is answered 500 with the body {status:"error", message:"Failed to
\* communicate with geocoding service"}; 200 is sent only when the upstream
\* call succeeded.
C2_UpstreamFailureIs500 ==
  /\ \A r \in Ids :
       (IsHttp(r) /\ NonEmptyText(r) /\ Failed(r)) => HttpAnswered(r, 500, FailedEnvelope)
  /\ \A i \in 1..Len(httpOut) : httpOut[i].code = 200 => Succeeded(httpOut[i].req)

C2_Witness ==
  \E r \in Ids : IsHttp(r) /\ NonEmptyText(r) /\ Failed(r) /\ HttpFor(r) # {}

\* ---------------------------------------------------------------- claim C3
\* C3: whenever a POST /geocode request and a geocoding-request event, both
\* with a non-empty text, have had their upstream calls fail (for whatever
\* causes), the body of the one and the payload of the other are equal, and
\* are {status:"error", message:"Failed to communicate with geocoding
\* service"}.
C3_SameErrorOnBothTransports ==
  \A h \in Ids, s \in Ids :
    (IsHttp(h) /\ IsSocket(s) /\ NonEmptyText(h) /\ NonEmptyText(s)
       /\ Failed(h) /\ Failed(s)) =>
      /\ \A i \in HttpFor(h), j \in EmitsFor(reqs[s].conn, s) :
           httpOut[i].body = emitted[reqs[s].conn][j].payload
      /\ \E i \in HttpFor(h) : httpOut[i].body = FailedEnvelope
      /\ SocketAnswered(s, FailedEnvelope)

C3_Witness ==
  \E h \in Ids, s \in Ids :
    /\ IsHttp(h) /\ IsSocket(s) /\ NonEmptyText(h) /\ NonEmptyText(s)
    /\ Failed(h) /\ Failed(s)
    /\ reqs[h].outcome.cause # reqs[s].outcome.cause
    /\ HttpFor(h) # {} /\ EmitsFor(reqs[s].conn, s) # {}

\* ---------------------------------------------------------------- claim C4
\* C4: a POST /geocode request and a geocoding-request event with the same
\* non-empty text and the same k, whose upstream calls succeed with the same
\* data R, are answered with the same envelope {status:"success",
\* results: R} (the former with status 200).
C4_SameSuccessOnBothTransports ==
  \A h \in Ids, s \in Ids :
    (IsHttp(h) /\ IsSocket(s) /\ NonEmptyText(h)
       /\ reqs[h].text = reqs[s].text /\ reqs[h].k = reqs[s].k
       /\ Succeeded(h) /\ Succeeded(s)
       /\ reqs[h].outcome.data = reqs[s].outcome.data) =>
      /\ HttpAnswered(h, 200, OkPayload(reqs[h].outcome.data))
      /\ SocketAnswered(s, OkPayload(reqs[h].outcome.data))

C4_Witness ==
  \E h \in Ids, s \in Ids :
    /\ IsHttp(h) /\ IsSocket(s) /\ NonEmptyText(h)
    /\ reqs[h].text = reqs[s].text /\ reqs[h].k = reqs[s].k
    /\ reqs[h].k # Undefined
    /\ Succeeded(h) /\ Succeeded(s)
    /\ reqs[h].outcome.data = reqs[s].outcome.data /\ reqs[h].outcome.data # <<>>
    /\ HttpFor(h) # {} /\ EmitsFor(reqs[s].conn, s) # {}

\* ---------------------------------------------------------------- claim C5
\* C5: a POST /geocode request whose body has text absent or empty is
\* answered 400 with {status:"error", message:"Text query is required"} and
\* no upstream call is issued for it, whatever k is.
C5_MissingTextIs400 ==
  \A r \in Ids :
    (IsHttp(r) /\ NoText(r)) =>
      /\ HttpAnswered(r, 400, ErrPayload("Text query is required"))
      /\ CallsFor(r) = {}

C5_Witness ==
  \E r \in Ids : IsHttp(r) /\ NoText(r) /\ reqs[r].text = Str(<<>>)
                 /\ Truthy(reqs[r].k) /\ HttpFor(r) # {}

\* ---------------------------------------------------------------- claim C6
\* C6 as stated: a geocoding-request event whose payload has text absent or
\* empty never reaches handleGeocodingRequest and causes no upstream call.
C6_SocketRejectsMissingText ==
  \A r \in Ids :
    (IsSocket(r) /\ NoText(r)) =>
      /\ CallsFor(r) = {}
      /\ reqs[r].completion.kind = "none"
      /\ reqs[r].outcome.state = "none"

\* C6 does hold of POST /geocode, the transport it is compared with
C6_HttpRejectsMissingText ==
  \A r \in Ids : (IsHttp(r) /\ NoText(r)) => CallsFor(r) = {}

\* ---------------------------------------------------------------- claim C7
\* How the upstream reads a URL: the query string is what follows the first
\* "?", its parameters are separated by "&", and a parameter's name ends at
\* its first "=".
IndexOf(s, ch) ==
  IF \E i \in 1..Len(s) : s[i] = ch
    THEN CHOOSE i \in 1..Len(s) : s[i] = ch /\ \A j \in 1..(i - 1) : s[j] # ch
    ELSE 0

RECURSIVE Split(_, _)
Split(s, sep) ==
  LET i == IndexOf(s, sep) IN
  IF i = 0 THEN <<s>>
  ELSE <<SubSeq(s, 1, i - 1)>> \o Split(SubSeq(s, i + 1, Len(s)), sep)

QueryString(url) ==
  LET i == IndexOf(url, "?") IN
  IF i = 0 THEN <<>> ELSE SubSeq(url, i + 1, Len(url))

Param(p) ==
  LET i == IndexOf(p, "=") IN
  IF i = 0 THEN [name |-> p, value |-> <<>>]
  ELSE [name |-> SubSeq(p, 1, i - 1), value |-> SubSeq(p, i + 1, Len(p))]

QueryParams(url) ==
  LET ps == Split(QueryString(url), "&") IN [i \in 1..Len(ps) |-> Param(ps[i])]

\* the values of the parameters named k, in order
KValues(url) ==
  LET ps == QueryParams(url) IN
  [j \in 1..Cardinality({i \in 1..Len(ps) : ps[i].name = <<"k">>}) |->
     ps[CHOOSE i \in 1..Len(ps) :
          /\ ps[i].name = <<"k">>
          /\ Cardinality({h \in 1..i : ps[h].name = <<"k">>}) = j].value]

Supplied(v) == v.type # "undefined"
\* non-empty string or non-zero number
NonEmptyNonZero(v) == Supplied(v) /\ v.repr # <<>> /\ v.repr # <<"0">>
\* the characters of v, none of which delimits a URL's parts
Plain(v) == \A i \in 1..Len(v.repr) : v.repr[i] \notin {"&", "=", "#", "?", "%", "+", " "}
EndsWith(s, t) == Len(s) >= Len(t) /\ SubSeq(s, Len(s) - Len(t) + 1, Len(s)) = t

C8_RepliesInOrderOfReceipt ==
  \A c \in Conns : \A i \in 1..Len(emitted[c]), j \in 1..Len(emitted[c]) :
    i < j => emitted[c][i].req < emitted[c][j].req

SettlePos(r) == CHOOSE i \in 1..Len(settleLog) : settleLog[i] = r
InSettleLog(r) == \E i \in 1..Len(settleLog) : settleLog[i] = r

\* C8 amended: on every socket the replies are emitted in the order in
\* which the requests' upstream calls settle, which need not be the order
\* of receipt; a request answered without an upstream call is answered on
\* receipt, hence after every reply already emitted for an earlier request.
C8_RepliesInOrderOfSettlement ==
  \A c \in Conns : \A i \in 1..Len(emitted[c]), j \in 1..Len(emitted[c]) :
    LET a == emitted[c][i].req
        b == emitted[c][j].req
    IN i < j =>
         /\ (InSettleLog(a) /\ InSettleLog(b)) => SettlePos(a) < SettlePos(b)
         /\ ~InSettleLog(b) => a < b

C8_Witness ==
  \E c \in Conns : \E i \in 1..Len(emitted[c]), j \in 1..Len(emitted[c]) :
    i < j /\ emitted[c][i].req > emitted[c][j].req

\* ---------------------------------------------------------------- claim C9
\* what the reply to socket request r must carry, from r's own outcome
OwnPayload(r) ==
  IF Succeeded(r) THEN OkPayload(reqs[r].outcome.data)
  ELSE IF ~reqs[r].present
    THEN ErrPayload("Cannot read properties of undefined (reading 'text')")
    ELSE FailedEnvelope

\* C9: every geocoding-response emitted on a socket answers a request
\* received on that same socket, and its payload is the outcome of that
\* request.
C9_ReplyOnOriginatingSocketOnly ==
  \A c \in Conns : \A i \in 1..Len(emitted[c]) :
    LET r == emitted[c][i].req IN
    /\ r \in Ids /\ IsSocket(r) /\ reqs[r].conn = c
    /\ reqs[r].pc = "done"
    /\ emitted[c][i].payload = OwnPayload(r)

C9_Witness ==
  \E a \in Ids, b \in Ids :
    /\ a < b /\ IsSocket(a) /\ IsSocket(b) /\ reqs[a].conn # reqs[b].conn
    /\ Succeeded(a) /\ Failed(b)
    /\ InSettleLog(a) /\ InSettleLog(b) /\ SettlePos(b) < SettlePos(a)
    /\ EmitsFor(reqs[a].conn, a) # {} /\ EmitsFor(reqs[b].conn, b) # {}

\* --------------------------------------------------------------- claim C10
\* C10: a socket request whose upstream call is pending can have it settle,
\* with any outcome, whatever the state of the other requests; once it has
\* settled the request is answered, exactly once, with the payload of its
\* own outcome, even if a request on another socket is still pending or has
\* failed.
C10_IndependentOfOtherSockets ==
  \A r \in Ids :
    IsSocket(r) =>
      /\ reqs[r].pc = "await" => \A o \in Outcomes : ENABLED AxiosSettle(r, o)
      /\ Settled(r) => SocketAnswered(r, OwnPayload(r))

C10_Witness ==
  \E a \in Ids, b \in Ids :
    /\ a < b /\ IsSocket(a) /\ IsSocket(b) /\ reqs[a].conn # reqs[b].conn
    /\ reqs[a].pc = "await"
    /\ Succeeded(b) /\ SocketAnswered(b, OkPayload(reqs[b].outcome.data))

\* --------------------------------------------------------------- claim C11
\* a well-formed envelope
IsEnvelope(e) ==
  \/ DOMAIN e = {"status", "results"} /\ e.status = "success"
  \/ DOMAIN e = {"status", "message"} /\ e.status = "error"

\* request r has been received and has its reply: an HTTP status with an
\* envelope, or a geocoding-response event with an envelope
Answered(r) ==
  /\ r \in Ids
  /\ IsHttp(r) => \E i \in HttpFor(r) :
                    httpOut[i].code \in {200, 400, 500} /\ IsEnvelope(httpOut[i].body)
  /\ IsSocket(r) => \E i \in EmitsFor(reqs[r].conn, r) :
                      IsEnvelope(emitted[reqs[r].conn][i].payload)

\* C11: under a fair event loop and an upstream whose calls settle, every
\* POST /geocode request and every geocoding-request event that is received
\* is eventually answered, on every path.
C11_EventuallyAnswered ==
  \A r \in 1..MaxFairRequests : (r \in Ids) ~> Answered(r)

C11_Witness ==
  \E h \in Ids, s \in Ids :
    /\ IsHttp(h) /\ IsSocket(s) /\ h < s
    /\ Failed(h) /\ Succeeded(s) /\ SettlePos(s) < SettlePos(h)
    /\ Answered(h) /\ Answered(s)

\* --------------------------------------------------------------- claim C12
HasResults(e) == "results" \in DOMAIN e
HasMessage(e) == "message" \in DOMAIN e
EnvelopeInvariant(e) ==
  /\ e.status \in {"success", "error"}
  /\ HasResults(e) <=> e.status = "success"
  /\ HasMessage(e) <=> e.status = "error"

\* C12: every envelope sent, as the body of a POST /geocode response or as
\* the payload of a geocoding-response event, has results exactly when its
\* status is "success" and message exactly when its status is "error".
C12_EnvelopeInvariant ==
  /\ \A i \in 1..Len(httpOut) : EnvelopeInvariant(httpOut[i].body)
  /\ \A c \in Conns : \A i \in 1..Len(emitted[c]) : EnvelopeInvariant(emitted[c][i].payload)
  /\ \A c \in Conns : \A i \in 1..Len(delivered[c]) : EnvelopeInvariant(delivered[c][i].payload)

C12_Witness ==
  /\ \E i \in 1..Len(httpOut) : httpOut[i].body.status = "error" /\ httpOut[i].code = 500
  /\ \E c \in Conns : \E i \in 1..Len(delivered[c]) :
       delivered[c][i].payload.status = "success"

\* --------------------------------------------------------------- claim C14
\* C14: every GET /health is answered 200 with {status:"healthy"}, whatever
\* the requests in flight and the upstream outcomes seen, and answering it
\* issues no upstream call and touches no request.
C14_HealthUnconditional ==
  [][healthOut' # healthOut =>
       /\ healthOut' = Append(healthOut, [code |-> 200, body |-> [status |-> "healthy"]])
       /\ calls' = calls
       /\ reqs' = reqs]_vars

C14_Witness ==
  /\ healthOut # <<>>
  /\ \A i \in 1..Len(healthOut) : healthOut[i].code = 200
  /\ \E r \in Ids : Failed(r) /\ SettlePos(r) = 1

\* --------------------------------------------------------------- claim C15
\* C15: no request has more than one upstream call; a request whose upstream
\* call failed is done and answered with the failure, having made that one
\* call.
C15_NoRetry ==
  \A r \in Ids :
    /\ Cardinality(CallsFor(r)) <= 1
    /\ Failed(r) =>
         /\ Cardinality(CallsFor(r)) = 1
         /\ reqs[r].pc = "done"
         /\ IsHttp(r) => \E i \in HttpFor(r) : httpOut[i].body = FailedEnvelope
         /\ IsSocket(r) => SocketAnswered(r, FailedEnvelope)

C15_Witness ==
  \E h \in Ids, s \in Ids :
    /\ IsHttp(h) /\ IsSocket(s) /\ Failed(h) /\ Failed(s)
    /\ Cardinality(CallsFor(h)) = 1 /\ Cardinality(CallsFor(s)) = 1
    /\ Len(calls) = 2

\* --------------------------------------------------------------- claim C18
\* all events emitted for request r, on any socket
AllEmitsFor(r) == UNION {{<<c, i>> : i \in EmitsFor(c, r)} : c \in Conns}

\* C18: a POST /geocode request has no response while it awaits the
\* upstream and exactly one, with status 400, 200 or 500, once it is done;
\* a geocoding-request event has no geocoding-response while it awaits the
\* upstream and exactly one once it is done.
C18_AnsweredAtMostOnce ==
  \A r \in Ids :
    /\ IsHttp(r) =>
         /\ Cardinality(HttpFor(r)) = (IF reqs[r].pc = "done" THEN 1 ELSE 0)
         /\ \A i \in HttpFor(r) : httpOut[i].code \in {200, 400, 500}
         /\ AllEmitsFor(r) = {}
    /\ IsSocket(r) =>
         /\ Cardinality(AllEmitsFor(r)) = (IF reqs[r].pc = "done" THEN 1 ELSE 0)
         /\ HttpFor(r) = {}

C18_Witness ==
  \E h \in Ids, s \in Ids :
    /\ IsHttp(h) /\ HttpAnswered(h, 400, ErrPayload("Text query is required"))
    /\ IsSocket(s) /\ Failed(s) /\ Cardinality(AllEmitsFor(s)) = 1

\* --------------------------------------------------------------- claim C13
DeliveredFor(r) == UNION {{<<c, i>> : i \in {j \in 1..Len(delivered[c]) : delivered[c][j].req = r}}
                          : c \in Conns}

\* the upstream call of a request whose socket has disconnected settles
SettlesAfterDisconnect(r) ==
  /\ IsSocket(r) /\ reqs[r].pc = "await" /\ reqs'[r].pc = "done"
  /\ sockets[reqs[r].conn] = "disconnected"

\* C13: the upstream call of a request whose socket has disconnected can
\* still settle; when it does the handler emits the reply on that socket,
\* nothing is delivered to any client, no socket changes state and the
\* request is done.
C13_DisconnectDoesNotCancel ==
  /\ [](\A r \in Ids :
          (IsSocket(r) /\ reqs[r].pc = "await") => Cardinality(CallsFor(r)) = 1)
  /\ [][\A r \in Ids :
          SettlesAfterDisconnect(r) =>
            /\ reqs'[r].outcome.state \in {"resolved", "rejected"}
            /\ Len(emitted'[reqs[r].conn]) = Len(emitted[reqs[r].conn]) + 1
            /\ emitted'[reqs[r].conn][Len(emitted'[reqs[r].conn])].req = r
            /\ delivered' = delivered
            /\ sockets' = sockets
            /\ calls' = calls]_vars

C13_Witness ==
  \E r \in Ids, q \in Ids :
    /\ IsSocket(r) /\ Settled(r) /\ sockets[reqs[r].conn] = "disconnected"
    /\ EmitsFor(reqs[r].conn, r) # {} /\ DeliveredFor(r) = {}
    /\ r < q /\ InSettleLog(q) /\ SettlePos(r) < SettlePos(q) /\ Answered(q)
    /\ (IsSocket(q) => DeliveredFor(q) # {})

\* --------------------------------------------------------------- claim C16
\* C16: a request whose handling throws is answered with an error envelope
\* carrying the message of what was thrown, and is done: POST /geocode with
\* no body, or whose call of handleGeocodingRequest throws, gets 500; a
\* geocoding-request with no payload, or whose call of
\* handleGeocodingRequest throws, gets a geocoding-response on its own
\* socket.
C16_ExceptionsCaughtAtAdapter ==
  \A r \in Ids :
    /\ (IsHttp(r) /\ ~reqs[r].present) =>
         /\ reqs[r].pc = "done"
         /\ HttpAnswered(r, 500, ErrPayload(
              "Cannot destructure property 'text' of 'req.body' as it is undefined."))
    /\ (IsSocket(r) /\ ~reqs[r].present) =>
         /\ reqs[r].pc = "done"
         /\ SocketAnswered(r, ErrPayload("Cannot read properties of undefined (reading 'text')"))
    /\ reqs[r].completion.kind = "throw" =>
         /\ reqs[r].pc = "done"
         /\ IsHttp(r) => HttpAnswered(r, 500, ErrPayload(reqs[r].completion.value.message))
         /\ IsSocket(r) => SocketAnswered(r, ErrPayload(reqs[r].completion.value.message))

C16_Witness ==
  \E h \in Ids, s \in Ids :
    /\ IsHttp(h) /\ ~reqs[h].present /\ HttpFor(h) # {}
    /\ IsSocket(s) /\ ~reqs[s].present /\ EmitsFor(reqs[s].conn, s) # {}

\* --------------------------------------------------------------- claim C17
\* what was sent in answer to request r
RepliesOf(r) ==
  {[code |-> httpOut[i].code, body |-> httpOut[i].body] : i \in HttpFor(r)}
  \cup UNION {{[socket |-> c, payload |-> emitted[c][i].payload] : i \in EmitsFor(c, r)}
              : c \in Conns}

SameInput(a, b) ==
  /\ reqs[a].transport = reqs[b].transport
  /\ reqs[a].present = reqs[b].present
  /\ reqs[a].text = reqs[b].text /\ reqs[a].k = reqs[b].k

\* the reply without the socket it went to
Content(reply) == IF "socket" \in DOMAIN reply THEN reply.payload ELSE reply

\* C17: requests with the same transport, the same (text, k) and the same
\* upstream outcome get the same reply and make the same upstream call,
\* whatever ran before; every upstream URL starts with the configured base
\* URL; and a step changes the record of at most one request, adds to the
\* replies of that request alone, and never alters a request it received
\* earlier in any other way.
C17_NoSharedState ==
  /\ [](\A a \in Ids, b \in Ids :
          (SameInput(a, b) /\ reqs[a].outcome = reqs[b].outcome /\ reqs[a].pc = "done") =>
            /\ {Content(x) : x \in RepliesOf(a)} = {Content(x) : x \in RepliesOf(b)}
            /\ {calls[i].url : i \in CallsFor(a)} = {calls[i].url : i \in CallsFor(b)})
  /\ [](\A i \in 1..Len(calls) :
          SubSeq(calls[i].url, 1, Len(GEOCODING_SERVICE_URL)) = GEOCODING_SERVICE_URL)
  /\ [][/\ Len(reqs') >= Len(reqs)
        /\ Cardinality({r \in Ids : reqs'[r] # reqs[r]}) <= 1
        /\ \A r \in Ids :
             reqs'[r] = reqs[r] =>
               /\ RepliesOf(r)' = RepliesOf(r)
               /\ CallsFor(r)' = CallsFor(r)]_vars

C17_Witness ==
  \E a \in Ids, b \in Ids :
    /\ a < b /\ SameInput(a, b) /\ IsHttp(a) /\ NonEmptyText(a)
    /\ Succeeded(a) /\ reqs[a].outcome = reqs[b].outcome
    /\ SettlePos(b) < SettlePos(a)
    /\ RepliesOf(a) # {} /\ RepliesOf(a) = RepliesOf(b)

====
